---- MODULE Spec2Model ----
(***************************************************************************)
(* Model of the informative-validator directive                            *)
(* (src/src/informative-validator-rules.ts, class                          *)
(* InformativeValidatorDirective, lines 97-339) and of the rules that the  *)
(* library ships (lines 57-85).                                            *)
(*                                                                         *)
(* JavaScript runs one macrotask at a time and drains the microtask queue  *)
(* after it, so every action below is one macrotask (an Angular lifecycle  *)
(* call, a DOM event, a value change of the control, the debounce timer    *)
(* elapsing, the operation behind an async rule settling) together with    *)
(* the promise callbacks it makes runnable.                                *)
(***************************************************************************)
EXTENDS Integers, Sequences, FiniteSets, TLC

VARIABLES
    syncRules,           \* directive field syncRules      (null or array)
    asyncRules,          \* directive field asyncRules     (null or array)
    syncRuleSet,         \* directive field syncRuleSet    (null or rule set)
    asyncRuleSet,        \* directive field asyncRuleSet   (null or rule set)
    hideFeedback,        \* @Input hideFeedback
    hideDescriptions,    \* @Input hideDescriptions
    formControl,         \* @Input formControl: null or the AbstractControl
    _valid,              \* private _valid
    _initialised,        \* private _initialised
    _typingTimer,        \* private _typingTimer: 0 (null) or a timer id
    _descriptionElement, \* private _descriptionElement
    _feedbackElement,    \* private _feedbackElement
    descriptions,        \* descriptions: null or array of strings
    feedback,            \* feedback: null or array of strings
    timers,              \* the Observable.timer subscriptions that are pending
                         \* or held in _typingTimer, by timer id
    passes,              \* every validate() call ever made
    destroyed,           \* ngOnDestroy has run
    last,                \* what the last macrotask was and what it did
    quiet                \* value changes so far, those of the current burst of
                         \* typing, and timers fired or cancelled since the
                         \* last change

vars == <<syncRules, asyncRules, syncRuleSet, asyncRuleSet, hideFeedback,
          hideDescriptions, formControl, _valid, _initialised, _typingTimer,
          _descriptionElement, _feedbackElement, descriptions, feedback,
          timers, passes, destroyed, last, quiet>>

inputs == <<syncRules, asyncRules, syncRuleSet, asyncRuleSet, hideFeedback,
            hideDescriptions>>

----------------------------------------------------------------------------
(* Bounds of the model.                                                    *)

\* validate() calls per behaviour
MaxPasses == 2
\* value changes of the control per behaviour
MaxChanges == 2
\* valueChanges subscriptions (ngOnChanges calls with a bound control)
MaxObservers == 2
\* length of the rule sets and rule lists drawn for aggregation
MaxRules == 2

----------------------------------------------------------------------------
(* null / undefined, and values that may be null.                          *)

None == [some |-> FALSE]
Some(x) == [some |-> TRUE, val |-> x]

\* a string-typed member that is null
NullString == "<null>"

----------------------------------------------------------------------------
(* Rules.  A control value is null or a string, a string being the         *)
(* sequence of its characters.                                             *)

Values == {None, Some(<<>>), Some(<<"a">>)}

\* a control value that is a number: val is what toString() gives for it
NumberValue == [some |-> TRUE, val |-> <<"7">>, number |-> TRUE]

IsNumber(value) == "number" \in DOMAIN value

\* the values a client sets with setValue() besides those that are typed:
\* a number, and a well-formed e-mail address
SetValues == {NumberValue, Some(<<"a", "@", "b", ".", "c", "c">>)}

RequiredValidationRule ==
    [name |-> "RequiredValidationRule",
     description |-> "This field is required",
     feedback |-> "You have not provided this item"]

EmailStructureValidationRule ==
    [name |-> "EmailStructureValidationRule",
     description |-> "Must be a valid Email address",
     feedback |-> "This email address is invalid"]

\* client rules written against the SynchronousValidationRule interface
DefinedRule ==
    [name |-> "DefinedRule",
     description |-> "Must be set",
     feedback |-> "Nothing was set"]

SilentRule ==
    [name |-> "SilentRule",
     description |-> NullString,
     feedback |-> NullString]

\* client rules written against the AsynchronousValidationRule interface
ExistsRule ==
    [name |-> "ExistsRule",
     description |-> "Must not be registered yet",
     feedback |-> "Already registered"]

BlockedRule ==
    [name |-> "BlockedRule",
     description |-> "Must not be blocked",
     feedback |-> "This item is blocked"]

SilentAsyncRule ==
    [name |-> "SilentAsyncRule",
     description |-> NullString,
     feedback |-> NullString]

SyncRuleUniverse == {RequiredValidationRule, DefinedRule, SilentRule}
\* EmailStructureValidationRule is bound in the bindings of SpecFault only
AsyncRuleUniverse == {ExistsRule, BlockedRule, SilentAsyncRule}

\* lines 66-69 without the length test
RequiredValidationRule_isValid_nullOnly(control) ==
    control.value # None

RequiredValidationRule_isValid(control) ==
    IF control.value = None THEN FALSE
    ELSE Len(control.value.val) > 0

DefinedRule_isValid(control) ==
    control.value # None

SilentRule_isValid(control) ==
    IF control.value = None THEN FALSE
    ELSE Len(control.value.val) >= 1

\* the characters of the model's strings, by the classes of the pattern
\* /^[A-Z0-9._%+-]+@[A-Z0-9.-]+\.[A-Z]{2,}$/i
Letters == {"a", "b", "c"}
Digits == {"7"}
LocalChars == Letters \cup Digits \cup {".", "_", "%", "+", "-"}
DomainChars == Letters \cup Digits \cup {".", "-"}

\* String.prototype.match with the pattern above does not return null
matchEmail(str) ==
    \E at \in 2..Len(str), dot \in 4..(Len(str) - 2) :
        /\ at + 1 < dot
        /\ str[at] = "@"
        /\ str[dot] = "."
        /\ \A i \in 1..(at - 1) : str[i] \in LocalChars
        /\ \A i \in (at + 1)..(dot - 1) : str[i] \in DomainChars
        /\ \A i \in (dot + 1)..Len(str) : str[i] \in Letters

\* for a null or string value; see throws for the others
EmailStructureValidationRule_isValid(control) ==
    IF control.value = None THEN TRUE
    ELSE matchEmail(control.value.val)

\* rule.isValid(this.formControl) throws: control.value.match is not a
\* function when the value is neither null nor a string
throws(rule, control) ==
    /\ rule.name = "EmailStructureValidationRule"
    /\ control.value # None
    /\ IsNumber(control.value)

\* rule.isValid(this.formControl) for a synchronous rule
isValid(rule, control) ==
    CASE rule.name = "RequiredValidationRule" -> RequiredValidationRule_isValid(control)
      [] rule.name = "EmailStructureValidationRule" -> EmailStructureValidationRule_isValid(control)
      [] rule.name = "DefinedRule" -> DefinedRule_isValid(control)
      [] rule.name = "SilentRule" -> SilentRule_isValid(control)

GenericFailure == "An unknown error occured during validation. Validation has failed."

----------------------------------------------------------------------------
(* Rule aggregation.                                                       *)

getSyncRules_listFirst ==
    LET fromSet == IF syncRuleSet = None THEN <<>> ELSE syncRuleSet.val
        fromList == IF syncRules = None THEN <<>> ELSE syncRules.val
    IN  fromList \o fromSet

getSyncRules ==
    LET fromSet == IF syncRuleSet = None THEN <<>> ELSE syncRuleSet.val
        fromList == IF syncRules = None THEN <<>> ELSE syncRules.val
    IN  fromSet \o fromList

getAsyncRules ==
    LET fromSet == IF asyncRuleSet = None THEN <<>> ELSE asyncRuleSet.val
        fromList == IF asyncRules = None THEN <<>> ELSE asyncRules.val
    IN  fromSet \o fromList

----------------------------------------------------------------------------
(* The directive and its control as one record, so that the statements of  *)
(* a handler can be applied one after the other.  exc is set when a        *)
(* statement threw: the rest of the running function is then skipped.      *)
(* started is the pass that validate() began in this macrotask, ready the  *)
(* pass whose promise callbacks are runnable, finished the pass whose      *)
(* valueUpdate() continuation ran, evaluated the control value that         *)
(* validate() read, invoked the number of async isValid() calls it made,   *)
(* shown the branch that valueUpdate()'s continuation took.                *)

Self ==
    [_valid |-> _valid, _initialised |-> _initialised,
     _typingTimer |-> _typingTimer,
     _descriptionElement |-> _descriptionElement,
     _feedbackElement |-> _feedbackElement,
     descriptions |-> descriptions, feedback |-> feedback,
     formControl |-> formControl, timers |-> timers, passes |-> passes,
     destroyed |-> destroyed,
     exc |-> FALSE, started |-> 0, evaluated |-> None, invoked |-> 0,
     ready |-> 0, finished |-> 0, snapshot |-> None, shown |-> "none"]

\* the AbstractControl a directive is bound to
NewControl(value, touched, disabled) ==
    [value |-> value, touched |-> touched, disabled |-> disabled,
     errors |-> None, observers |-> 0]

\* AbstractControl.status as read by shouldDisplayFeedback()
ControlStatus(control) ==
    IF control.disabled THEN "DISABLED"
    ELSE IF control.errors # None THEN "INVALID" ELSE "VALID"

----------------------------------------------------------------------------
(* Debounce timer.  A timer subscription is pending until it fires or is   *)
(* unsubscribed; one that is neither pending nor held in _typingTimer is   *)
(* unreachable and dropped.                                                *)

\* Subscription.unsubscribe() of the timer subscription held in _typingTimer
unsubscribe(s) ==
    IF s.timers[s._typingTimer] = "pending"
    THEN [s EXCEPT !.timers[s._typingTimer] = "cancelled"]
    ELSE s

\* if(this._typingTimer != null) this._typingTimer.unsubscribe();
cancelTypingTimer_never(s) == s

cancelTypingTimer(s) ==
    IF s._typingTimer # 0 THEN unsubscribe(s) ELSE s

\* the subscriptions still reachable when _typingTimer holds timer id
Reachable(schedule, id) ==
    [t \in {u \in DOMAIN schedule : schedule[u] = "pending" \/ u = id} |-> schedule[t]]

\* the id of the next subscription: one that no reachable subscription has
NewTimer(schedule) ==
    CHOOSE t \in 1..(Cardinality(DOMAIN schedule) + 1) : t \notin DOMAIN schedule

\* Observable.timer(validationDelay).subscribe(callback); the delay itself
\* is not modelled, the timer elapses at any later macrotask
subscribeTimer(schedule) ==
    LET id == NewTimer(schedule)
    IN  [t \in DOMAIN schedule \cup {id} |-> IF t = id THEN "pending" ELSE schedule[t]]

waitForInputFinish_forgetHandle(s) ==
    LET s1 == cancelTypingTimer(s)
    IN  [s1 EXCEPT !.timers = Reachable(subscribeTimer(s1.timers), s1._typingTimer)]

waitForInputFinish(s) ==
    LET s1 == cancelTypingTimer(s)
        id == NewTimer(s1.timers)
    IN  [s1 EXCEPT !.timers = Reachable(subscribeTimer(s1.timers), id),
                   !._typingTimer = id]

----------------------------------------------------------------------------
(* Presentation.  An element is modelled by whether it is in the document; *)
(* the markup written to its innerHTML is not.                             *)

RECURSIVE pushDescriptions(_, _, _)
pushDescriptions(rules, i, acc) ==
    IF i > Len(rules) THEN acc
    ELSE pushDescriptions(rules, i + 1,
            IF rules[i].description # NullString
            THEN Append(acc, rules[i].description) ELSE acc)

buildDescriptions(s) ==
    LET sync == getSyncRules
        async == getAsyncRules
    IN  [s EXCEPT !.descriptions =
            Some(pushDescriptions(async, 1, pushDescriptions(sync, 1, <<>>)))]

setErrors(s) ==
    LET errors == IF s._valid THEN None ELSE Some([customErrors |-> TRUE])
    IN  [s EXCEPT !.formControl.val.errors = errors]

\* lines 230-232; no method of the class calls it
clearErrors(s) ==
    IF s.formControl = None THEN [s EXCEPT !.exc = TRUE]
    ELSE [s EXCEPT !.formControl.val.errors = None]

clearDescriptions(s) ==
    IF s._descriptionElement = None THEN s
    ELSE IF ~s._descriptionElement.val.attached THEN [s EXCEPT !.exc = TRUE]
    ELSE [s EXCEPT !._descriptionElement = None]

displayDescriptions(s) ==
    IF hideDescriptions THEN s
    ELSE [s EXCEPT !._descriptionElement = Some([attached |-> TRUE])]

\* removeChild through parentElement: parentElement of an element that was
\* never inserted is null, and the call throws
clearFeedback(s) ==
    IF s._feedbackElement = None THEN s
    ELSE IF ~s._feedbackElement.val.attached THEN [s EXCEPT !.exc = TRUE]
    ELSE [s EXCEPT !._feedbackElement = None]

\* lines 260-269 without the hideFeedback operand
shouldDisplayFeedback_ignoreHide(s) ==
    ~ (\/ s.feedback = None
       \/ s.formControl = None
       \/ ~s.formControl.val.touched
       \/ ControlStatus(s.formControl.val) = "DISABLED"
       \/ s._valid)

shouldDisplayFeedback(s) ==
    ~ (\/ s.feedback = None
       \/ hideFeedback
       \/ s.formControl = None
       \/ ~s.formControl.val.touched
       \/ ControlStatus(s.formControl.val) = "DISABLED"
       \/ s._valid)

\* lines 281-284: the element is created and stored, then inserted before
\* this._descriptionElement.nextSibling, which throws when there is no
\* description element
insertFeedback(s) ==
    LET created == [s EXCEPT !._feedbackElement = Some([attached |-> FALSE])]
    IN  IF created._descriptionElement = None
        THEN [created EXCEPT !.exc = TRUE]
        ELSE [created EXCEPT !._feedbackElement.val.attached = TRUE]

displayFeedback(s) ==
    IF ~s._initialised THEN s
    ELSE LET cleared == clearFeedback(s)
         IN  IF cleared.exc THEN cleared ELSE insertFeedback(cleared)

----------------------------------------------------------------------------
(* validate().  A pass is one call of validate(); its record holds the     *)
(* locals that the promise callbacks close over (asyncRules, valid), the   *)
(* promises pushed at line 313 with the results they settled with, in the  *)
(* order they settled, the state of the promise chain and the state of the *)
(* promise that validate() returned.                                       *)

\* lines 295-303 with a try/catch that is not in the code
RECURSIVE syncLoop_caught(_, _, _, _)
syncLoop_caught(rules, i, control, acc) ==
    IF i > Len(rules) THEN acc
    ELSE LET rule == rules[i]
             ruleIsValid == ~throws(rule, control) /\ isValid(rule, control)
         IN  syncLoop_caught(rules, i + 1, control,
                IF ~ruleIsValid
                THEN [acc EXCEPT !.feedback = IF rule.feedback # NullString
                                              THEN Append(@, rule.feedback)
                                              ELSE @,
                                 !.valid = FALSE]
                ELSE acc)

\* lines 295-303; threw: a rule's isValid threw, which ends the loop
RECURSIVE syncLoop(_, _, _, _)
syncLoop(rules, i, control, acc) ==
    IF i > Len(rules) THEN acc
    ELSE LET rule == rules[i]
         IN  IF throws(rule, control) THEN [acc EXCEPT !.threw = TRUE]
             ELSE LET ruleIsValid == isValid(rule, control)
                  IN  syncLoop(rules, i + 1, control,
                         IF ~ruleIsValid
                         THEN [acc EXCEPT !.feedback = IF rule.feedback # NullString
                                                       THEN Append(@, rule.feedback)
                                                       ELSE @,
                                          !.valid = FALSE]
                         ELSE acc)

\* if(!valid) at line 305
shortCircuit_never(valid) == FALSE

shortCircuit(valid) == ~valid

IsWaiting(pass) == pass.state = "waiting"

\* a finished pass that is no longer the one that started last
Superseded ==
    [state |-> "done", promise |-> "fulfilled", syncFailed |-> FALSE,
     asyncRules |-> <<>>, settled |-> <<>>, valid |-> FALSE, alone |-> TRUE]

validate(s) ==
    LET sync == getSyncRules
        async == getAsyncRules
        control == s.formControl.val
        r == syncLoop(sync, 1, control,
                      [feedback |-> <<>>, valid |-> TRUE, threw |-> FALSE])
        id == Len(s.passes) + 1
        pass == [state |-> "waiting", promise |-> "pending",
                 syncFailed |-> ~r.valid,
                 asyncRules |-> <<>>, settled |-> <<>>,
                 valid |-> r.valid,
                 alone |-> \A i \in 1..Len(s.passes) : ~IsWaiting(s.passes[i])]
        s0 == [s EXCEPT !.feedback = Some(r.feedback),
                        !.started = id,
                        !.evaluated = Some(control.value),
                        !.passes = [i \in 1..Len(s.passes) |->
                                      IF IsWaiting(s.passes[i])
                                      THEN [s.passes[i] EXCEPT !.alone = FALSE]
                                      ELSE Superseded]]
    IN  IF r.threw
        THEN [s EXCEPT !.feedback = Some(r.feedback),
                       !.evaluated = Some(control.value),
                       !.passes = [i \in 1..Len(s.passes) |->
                                     IF IsWaiting(s.passes[i])
                                     THEN [s.passes[i] EXCEPT !.alone = FALSE]
                                     ELSE s.passes[i]],
                       !.exc = TRUE]
        ELSE IF shortCircuit(r.valid)
        THEN [s0 EXCEPT !._valid = r.valid,
                        !.passes = Append(@, [pass EXCEPT !.state = "shortCircuited",
                                                          !.promise = "fulfilled"]),
                        !.ready = id]
        ELSE [s0 EXCEPT !.invoked = Len(async),
                        !.passes =
                           Append(@, [pass EXCEPT !.asyncRules = async,
                                                  !.state = IF Len(async) = 0
                                                            THEN "allResolved"
                                                            ELSE "waiting"]),
                        !.ready = IF Len(async) = 0 THEN id ELSE 0]

\* the array Promise.all resolves with: the value of promises[key] at key
PromiseAllResults(pass) ==
    [key \in 1..Len(pass.asyncRules) |->
        LET i == CHOOSE j \in 1..Len(pass.settled) : pass.settled[j].key = key
        IN  pass.settled[i].result]

\* the keys that for(let key in results) visits, in the order it visits them
resultKeys_completionOrder(pass) ==
    [i \in 1..Len(pass.settled) |-> pass.settled[i].key]

resultKeys(pass) ==
    [i \in 1..Len(pass.asyncRules) |-> i]

\* lines 317-324 with valid = results[key] in place of the if
RECURSIVE asyncLoop_lastResult(_, _, _, _, _)
asyncLoop_lastResult(keys, i, results, rules, acc) ==
    IF i > Len(keys) THEN acc
    ELSE LET key == keys[i]
         IN  asyncLoop_lastResult(keys, i + 1, results, rules,
                [feedback |-> IF ~results[key] /\ rules[key].feedback # NullString
                              THEN Append(acc.feedback, rules[key].feedback)
                              ELSE acc.feedback,
                 valid |-> results[key]])

RECURSIVE asyncLoop(_, _, _, _, _)
asyncLoop(keys, i, results, rules, acc) ==
    IF i > Len(keys) THEN acc
    ELSE LET key == keys[i]
         IN  asyncLoop(keys, i + 1, results, rules,
                IF ~results[key]
                THEN [feedback |-> IF rules[key].feedback # NullString
                                   THEN Append(acc.feedback, rules[key].feedback)
                                   ELSE acc.feedback,
                      valid |-> FALSE]
                ELSE acc)

\* lines 316-329
thenCallback(s, p) ==
    LET pass == s.passes[p]
        r == asyncLoop(resultKeys(pass), 1, PromiseAllResults(pass),
                       pass.asyncRules,
                       [feedback |-> s.feedback.val, valid |-> pass.valid])
    IN  [s EXCEPT !.feedback = Some(r.feedback),
                  !._valid = r.valid,
                  !.passes[p].valid = r.valid,
                  !.passes[p].promise = "fulfilled"]

\* lines 330-337
catchCallback_append(s, p) ==
    [s EXCEPT !.feedback = Some(Append(s.feedback.val, GenericFailure)),
              !._valid = FALSE,
              !.passes[p].valid = FALSE,
              !.passes[p].promise = "fulfilled"]

catchCallback(s, p) ==
    [s EXCEPT !.feedback = Some(<<GenericFailure>>),
              !._valid = FALSE,
              !.passes[p].valid = FALSE,
              !.passes[p].promise = "fulfilled"]

\* the callback valueUpdate() attaches to the promise of validate()
displayOrClear(s) ==
    IF shouldDisplayFeedback(s)
    THEN displayFeedback([s EXCEPT !.shown = "display"])
    ELSE clearFeedback([s EXCEPT !.shown = "clear"])

valueUpdateThen(s) ==
    displayOrClear(setErrors(s))

\* what is kept of a pass once its promise chain has run
Settled(pass) ==
    [pass EXCEPT !.state = "done", !.asyncRules = <<>>, !.settled = <<>>,
                 !.alone = TRUE]

\* the microtasks of the macrotask: the callbacks of the pass that became
\* runnable, then the continuation in valueUpdate()
drain(s) ==
    IF s.ready = 0 THEN s
    ELSE LET p == s.ready
             pass == s.passes[p]
             s1 == CASE pass.state = "shortCircuited" -> s
                     [] pass.state = "allResolved" -> thenCallback(s, p)
                     [] pass.state = "rejected" -> catchCallback(s, p)
             s2 == [s1 EXCEPT !.snapshot = Some(s1.passes[p]),
                              !.passes[p] = Settled(s1.passes[p]),
                              !.finished = p]
         IN  IF s2.passes[p].promise = "fulfilled" THEN valueUpdateThen(s2)
             ELSE [s2 EXCEPT !.exc = TRUE]

\* valueUpdate() up to the call of validate(); its callback is valueUpdateThen
valueUpdate(s) == validate(s)

----------------------------------------------------------------------------
(* Handlers.                                                               *)

initialise(s) ==
    LET s1 == displayDescriptions(buildDescriptions(s))
    IN  valueUpdate([s1 EXCEPT !._initialised = TRUE])

\* lines 166-171 with a timer per subscription: the timer scheduled by the
\* subscription before is not cancelled
onValueChanges_ownTimer(s) ==
    LET s1 == setErrors(s)
        id == NewTimer(s1.timers)
    IN  [s1 EXCEPT !.timers = Reachable(subscribeTimer(s1.timers), id),
                   !._typingTimer = id]

\* the callback subscribed to formControl.valueChanges, lines 166-171
onValueChanges(s) == waitForInputFinish(setErrors(s))

\* lines 163-172 without the test of _initialised
ngOnChanges_reinitialise(s) ==
    IF s.formControl = None THEN s
    ELSE LET s1 == initialise(s)
         IN  IF s1.exc THEN s1
             ELSE [s1 EXCEPT !.formControl.val.observers = @ + 1]

ngOnChanges(s) ==
    IF s.formControl = None THEN s
    ELSE LET s1 == IF ~s._initialised THEN initialise(s) ELSE s
         IN  IF s1.exc THEN s1
             ELSE [s1 EXCEPT !.formControl.val.observers = @ + 1]

\* EventEmitter.emit: every subscribed callback runs, one after the other
RECURSIVE emitValueChanges(_, _)
emitValueChanges(s, n) ==
    IF n = 0 THEN s ELSE emitValueChanges(onValueChanges(s), n - 1)

\* lines 174-180 without the null check at line 176
onBlur_unguarded(s) ==
    IF ~s._initialised THEN s
    ELSE IF s._typingTimer = 0 THEN [s EXCEPT !.exc = TRUE]
    ELSE valueUpdate(unsubscribe(s))

onBlur(s) ==
    IF ~s._initialised THEN s
    ELSE valueUpdate(cancelTypingTimer(s))

\* lines 182-188 without the unsubscribe at lines 184-186
onKeyUp_noCancel(s) ==
    IF ~s._initialised THEN s
    ELSE valueUpdate(s)

onKeyUp(s) ==
    IF ~s._initialised THEN s
    ELSE valueUpdate(cancelTypingTimer(s))

ngOnDestroy(s) ==
    LET cleared == clearFeedback(cancelTypingTimer(s))
        s1 == IF cleared.exc THEN cleared ELSE clearDescriptions(cleared)
    IN  [s1 EXCEPT !.destroyed = TRUE]

\* the timer elapsed: (result) => { this.valueUpdate(); }
onTimer(s, id) ==
    valueUpdate([s EXCEPT !.timers =
                    Reachable([s.timers EXCEPT ![id] = "fired"], s._typingTimer)])

\* promises[key] of pass p settles
onSettle(s, p, key, outcome) ==
    LET pass == s.passes[p]
    IN  IF outcome = "reject"
        THEN [s EXCEPT !.passes[p].state = "rejected", !.ready = p]
        ELSE LET settled == Append(pass.settled,
                                   [key |-> key, result |-> (outcome = "true")])
                 all == Len(settled) = Len(pass.asyncRules)
             IN  [s EXCEPT !.passes[p].settled = settled,
                           !.passes[p].state = IF all THEN "allResolved" ELSE "waiting",
                           !.ready = IF all THEN p ELSE 0]

----------------------------------------------------------------------------
(* Actions.                                                                *)

Become(s, timer, op) ==
    /\ _valid' = s._valid
    /\ _initialised' = s._initialised
    /\ _typingTimer' = s._typingTimer
    /\ _descriptionElement' = s._descriptionElement
    /\ _feedbackElement' = s._feedbackElement
    /\ descriptions' = s.descriptions
    /\ feedback' = s.feedback
    /\ formControl' = s.formControl
    /\ timers' = s.timers
    /\ passes' = s.passes
    /\ destroyed' = s.destroyed
    /\ last' = [started |-> s.started, evaluated |-> s.evaluated,
                invoked |-> s.invoked, finished |-> s.finished,
                threw |-> s.exc, snapshot |-> s.snapshot, timer |-> timer,
                op |-> op, shown |-> s.shown]
    /\ UNCHANGED inputs

PendingTimers == {id \in DOMAIN timers : timers[id] = "pending"}

Outcomes == {"true", "false", "reject"}

Unsettled(pass) ==
    {key \in 1..Len(pass.asyncRules) :
        \A i \in 1..Len(pass.settled) : pass.settled[i].key # key}

NgOnChanges ==
    /\ ~destroyed
    /\ formControl # None => formControl.val.observers < MaxObservers
    /\ (formControl # None /\ ~_initialised) => Len(passes) < MaxPasses
    /\ Become(drain(ngOnChanges(Self)), 0, "ngOnChanges")
    /\ UNCHANGED quiet

\* AbstractControl.setValue: the value is stored, updateValueAndValidity
\* recomputes the errors of an enabled control from its validators, of which
\* it has none, and valueChanges emits
updateValue(control, v) ==
    [control EXCEPT !.value = v,
                    !.errors = IF control.disabled THEN @ ELSE None]

\* the control takes the value v and emits valueChanges
ValueChangeTo(v) ==
    /\ Become(emitValueChanges([Self EXCEPT !.formControl.val =
                                                updateValue(@, v)],
                               formControl.val.observers), 0, "valueChanges")
    /\ quiet' = [changes |-> quiet.changes + 1,
                 burst |-> IF PendingTimers # {} THEN quiet.burst + 1 ELSE 1,
                 fired |-> 0, cancelled |-> FALSE]

\* the user types
ValueChange ==
    /\ formControl # None
    /\ quiet.changes < MaxChanges
    /\ \E v \in Values : ValueChangeTo(v)

\* the client calls formControl.setValue()
SetValue ==
    /\ formControl # None
    /\ quiet.changes < MaxChanges
    /\ \E v \in SetValues : ValueChangeTo(v)

MarkAsTouched ==
    /\ formControl # None
    /\ ~formControl.val.touched
    /\ Become([Self EXCEPT !.formControl.val.touched = TRUE], 0, "markAsTouched")
    /\ UNCHANGED quiet

TimerFire ==
    /\ Len(passes) < MaxPasses
    /\ \E id \in PendingTimers :
         Become(drain(onTimer(Self, id)), id, "timer")
    /\ quiet' = [quiet EXCEPT !.fired = @ + 1]

OnBlur ==
    /\ ~destroyed
    /\ _initialised => Len(passes) < MaxPasses
    /\ Become(drain(onBlur(Self)), 0, "onBlur")
    /\ quiet' = IF _initialised /\ PendingTimers # {}
                THEN [quiet EXCEPT !.cancelled = TRUE] ELSE quiet

OnKeyUp ==
    /\ ~destroyed
    /\ _initialised => Len(passes) < MaxPasses
    /\ Become(drain(onKeyUp(Self)), 0, "onKeyUp")
    /\ quiet' = IF _initialised /\ PendingTimers # {}
                THEN [quiet EXCEPT !.cancelled = TRUE] ELSE quiet

Settle ==
    \E p \in 1..Len(passes) :
      /\ IsWaiting(passes[p])
      /\ \E key \in Unsettled(passes[p]), outcome \in Outcomes :
           Become(drain(onSettle(Self, p, key, outcome)), 0, "settle")
      /\ UNCHANGED quiet

\* a client or a subclass calls clearErrors() on a control that has errors;
\* on a control without errors the call changes nothing
ClearErrors ==
    /\ formControl # None
    /\ formControl.val.errors # None
    /\ Become(clearErrors(Self), 0, "clearErrors")
    /\ UNCHANGED quiet

\* the template gives the directive its control after construction
BindControl ==
    /\ ~destroyed
    /\ formControl = None
    /\ \E v \in Values :
         Become([Self EXCEPT !.formControl = Some(NewControl(v, FALSE, FALSE))],
                0, "bind")
    /\ UNCHANGED quiet

NgOnDestroy ==
    /\ ~destroyed
    /\ Become(ngOnDestroy(Self), 0, "ngOnDestroy")
    /\ quiet' = IF PendingTimers # {}
                THEN [quiet EXCEPT !.cancelled = TRUE] ELSE quiet

----------------------------------------------------------------------------
(* The bindings that are explored.                                         *)

\* a directive as configured by its template, and the control it is given
Binding(set, list, asyncSet, asyncList, noFeedback, noDescriptions, control) ==
    [syncRuleSet |-> set, syncRules |-> list,
     asyncRuleSet |-> asyncSet, asyncRules |-> asyncList,
     hideFeedback |-> noFeedback, hideDescriptions |-> noDescriptions,
     formControl |-> control]

Bindings ==
    {Binding(None, None, None, None, FALSE, FALSE, None),
     Binding(Some(<<RequiredValidationRule>>), None, None, None, FALSE, FALSE,
             Some(NewControl(None, FALSE, FALSE))),
     Binding(Some(<<RequiredValidationRule>>), Some(<<DefinedRule, SilentRule>>),
             Some(<<ExistsRule>>), None, FALSE, FALSE,
             Some(NewControl(Some(<<"a">>), FALSE, FALSE))),
     Binding(Some(<<RequiredValidationRule>>), None,
             Some(<<ExistsRule>>), None, FALSE, TRUE,
             Some(NewControl(Some(<<"a">>), FALSE, FALSE))),
     Binding(Some(<<RequiredValidationRule>>), None,
             None, Some(<<SilentAsyncRule>>), TRUE, FALSE,
             Some(NewControl(Some(<<"a">>), FALSE, FALSE))),
     Binding(None, Some(<<RequiredValidationRule>>),
             None, Some(<<SilentAsyncRule>>), FALSE, FALSE,
             Some(NewControl(Some(<<"a">>), FALSE, TRUE)))}

NoStep ==
    [started |-> 0, evaluated |-> None, invoked |-> 0, finished |-> 0,
     threw |-> FALSE, snapshot |-> None, timer |-> 0, op |-> "none",
     shown |-> "none"]

InitDirective ==
    /\ _valid = FALSE
    /\ _initialised = FALSE
    /\ _typingTimer = 0
    /\ _descriptionElement = None
    /\ _feedbackElement = None
    /\ descriptions = None
    /\ feedback = None
    /\ timers = <<>>
    /\ passes = <<>>
    /\ destroyed = FALSE
    /\ last = NoStep
    /\ quiet = [changes |-> 0, burst |-> 0, fired |-> 0, cancelled |-> FALSE]

Start(bindings) ==
    /\ \E b \in bindings :
         /\ syncRuleSet = b.syncRuleSet
         /\ syncRules = b.syncRules
         /\ asyncRuleSet = b.asyncRuleSet
         /\ asyncRules = b.asyncRules
         /\ hideFeedback = b.hideFeedback
         /\ hideDescriptions = b.hideDescriptions
         /\ formControl = b.formControl
    /\ InitDirective

Init == Start(Bindings)

Next ==
    \/ NgOnChanges
    \/ ValueChange
    \/ MarkAsTouched
    \/ TimerFire
    \/ OnBlur
    \/ OnKeyUp
    \/ Settle
    \/ ClearErrors
    \/ BindControl
    \/ NgOnDestroy

Spec == Init /\ [][Next]_vars

----------------------------------------------------------------------------
(* Bindings with two async rules, on a control whose value passes the sync *)
(* rules and does not change: passes are started by ngOnChanges, blur and  *)
(* enter, and their async rules settle in every order.                     *)

AsyncBindings ==
    {Binding(Some(<<RequiredValidationRule>>), None,
             Some(<<ExistsRule>>), Some(<<BlockedRule>>), FALSE, FALSE,
             Some(NewControl(Some(<<"a">>), FALSE, FALSE))),
     Binding(None, Some(<<RequiredValidationRule>>),
             None, Some(<<SilentAsyncRule, ExistsRule>>), FALSE, FALSE,
             Some(NewControl(Some(<<"a">>), FALSE, FALSE)))}

InitAsync == Start(AsyncBindings)

NextAsync ==
    \/ NgOnChanges
    \/ MarkAsTouched
    \/ OnBlur
    \/ OnKeyUp
    \/ Settle

SpecAsync == InitAsync /\ [][NextAsync]_vars

----------------------------------------------------------------------------
(* Bindings with two sync and two async rules, on a control with each of   *)
(* the values and whose value does not change.                             *)

PassBindings ==
    {[b EXCEPT !.formControl = Some(NewControl(v, FALSE, FALSE))] :
        b \in AsyncBindings \cup
              {Binding(Some(<<RequiredValidationRule>>), Some(<<DefinedRule, SilentRule>>),
                       Some(<<ExistsRule>>), Some(<<BlockedRule>>), FALSE, FALSE, None),
               Binding(Some(<<DefinedRule>>), Some(<<RequiredValidationRule>>),
                       None, None, FALSE, FALSE, None)},
        v \in Values}

InitPass == Start(PassBindings)

SpecPass == InitPass /\ [][NextAsync]_vars

----------------------------------------------------------------------------
(* Bindings with the e-mail rule, on a control that is also given values   *)
(* that are not strings.                                                   *)

FaultBindings ==
    {Binding(None, Some(<<EmailStructureValidationRule>>),
             Some(<<ExistsRule>>), None, FALSE, FALSE,
             Some(NewControl(NumberValue, FALSE, FALSE))),
     Binding(Some(<<DefinedRule, EmailStructureValidationRule>>), None,
             None, None, FALSE, FALSE,
             Some(NewControl(None, FALSE, FALSE)))}

InitFault == Start(FaultBindings)

NextFault ==
    \/ NgOnChanges
    \/ ValueChange
    \/ SetValue
    \/ MarkAsTouched
    \/ TimerFire
    \/ OnBlur
    \/ OnKeyUp
    \/ Settle

SpecFault == InitFault /\ [][NextFault]_vars

----------------------------------------------------------------------------
(* Properties of one validation pass.                                      *)

AllPassed == \A i \in 1..Len(passes) : ~IsWaiting(passes[i])

\* the feedback of the rules at the positions of rules that are in failing
\* and have feedback, in the order of rules
FailingFeedback(rules, failing) ==
    LET keep == {i \in 1..Len(rules) : i \in failing /\ rules[i].feedback # NullString}
        position(n) == CHOOSE i \in keep : Cardinality({j \in keep : j < i}) = n - 1
    IN  [n \in 1..Cardinality(keep) |-> rules[position(n)].feedback]

FailingSyncRules ==
    {i \in 1..Len(getSyncRules) : ~isValid(getSyncRules[i], formControl.val)}

\* the pass that the last macrotask started
StartedPass == last.started # 0

\* C1: when validate() finds a sync rule failing, it invokes no async rule,
\* and the pass is complete when validate() returns, with _valid = false and
\* the feedback of the failing sync rules that have one, in aggregated order.
C1_SyncFailureShortCircuits ==
    (StartedPass /\ FailingSyncRules # {}) =>
        /\ last.invoked = 0
        /\ last.finished = last.started
        /\ _valid = FALSE
        /\ feedback = Some(FailingFeedback(getSyncRules, FailingSyncRules))

\* a pass on a binding with async rules where two sync rules with feedback
\* and one without failed
C1_Witness ==
    /\ StartedPass
    /\ Cardinality(FailingSyncRules) = 3
    /\ Len(getAsyncRules) > 0
    /\ feedback = Some(<<"You have not provided this item", "Nothing was set">>)

\* the pass whose promise chain ran in the last macrotask, as it was when
\* validate()'s promise settled
FinishedPass == last.snapshot.val

Rejected == last.snapshot # None /\ FinishedPass.state = "rejected"

\* C2: when the operation of an async rule rejects, the pass ends with
\* _valid = false and the generic message as the only feedback, and the
\* promise of validate() is fulfilled, so that valueUpdate() goes on to flag
\* the control.
C2_RejectionFailsClosed ==
    Rejected =>
        /\ _valid = FALSE
        /\ feedback = Some(<<GenericFailure>>)
        /\ FinishedPass.promise = "fulfilled"
        /\ formControl.val.errors = Some([customErrors |-> TRUE])

\* the second async rule rejected after the first had resolved false
C2_Witness ==
    /\ Rejected
    /\ Len(FinishedPass.asyncRules) = 2
    /\ FinishedPass.settled = <<[key |-> 1, result |-> FALSE]>>
    /\ FinishedPass.asyncRules[1].feedback # NullString

Resolved == last.snapshot # None /\ FinishedPass.state = "allResolved"

FailingAsyncRules(pass) ==
    {pass.settled[i].key : i \in {j \in 1..Len(pass.settled) : ~pass.settled[j].result}}

\* C3: a pass that overlapped no other pass and whose async rules all
\* resolved ends with the feedback of the failing async rules in declared
\* order, in whatever order they resolved.
C3_FeedbackInDeclaredOrder ==
    (Resolved /\ FinishedPass.alone /\ ~FinishedPass.syncFailed) =>
        feedback = Some(FailingFeedback(FinishedPass.asyncRules,
                                        FailingAsyncRules(FinishedPass)))

\* both async rules resolved false, the second one first
C3_Witness ==
    /\ Resolved
    /\ FinishedPass.alone
    /\ FinishedPass.settled = <<[key |-> 2, result |-> FALSE], [key |-> 1, result |-> FALSE]>>
    /\ feedback = Some(<<"Already registered", "This item is blocked">>)

\* the binding's only rule is the sync RequiredValidationRule
RequiredOnly ==
    getSyncRules = <<RequiredValidationRule>> /\ getAsyncRules = <<>>

\* C15: on a binding whose only rule is RequiredValidationRule, a pass on
\* "" or null ends at once with _valid = false and the rule's feedback as
\* the only feedback, and a pass on a non-empty value with _valid = true and
\* no feedback.
C15_RequiredScenario ==
    (RequiredOnly /\ StartedPass) =>
        /\ last.finished = last.started
        /\ IF last.evaluated \in {Some(None), Some(Some(<<>>))}
           THEN ~_valid /\ feedback = Some(<<"You have not provided this item">>)
           ELSE _valid /\ feedback = Some(<<>>)

\* a pass on the value ""
C15_Witness ==
    /\ RequiredOnly
    /\ StartedPass
    /\ last.evaluated = Some(Some(<<>>))
    /\ formControl.val.value = Some(<<>>)
    /\ ~_valid
    /\ feedback = Some(<<"You have not provided this item">>)

\* a pass that overlapped no other finished in the last macrotask, and no
\* async operation of it rejected
SinglePassFinished ==
    /\ last.snapshot # None
    /\ FinishedPass.state \in {"shortCircuited", "allResolved"}
    /\ FinishedPass.alone

\* C11: a pass that overlapped no other and in which no async operation
\* rejected ends with _valid = true exactly when no sync rule returned false
\* and no async rule resolved false, and with the feedback of the failing
\* sync rules followed by that of the failing async rules, and no other.
\* (The value of the control does not change during the pass.)
C11_VerdictIsConjunction ==
    SinglePassFinished =>
        /\ FinishedPass.syncFailed = (FailingSyncRules # {})
        /\ _valid = (FailingSyncRules = {} /\ FailingAsyncRules(FinishedPass) = {})
        /\ feedback = Some(FailingFeedback(getSyncRules, FailingSyncRules) \o
                           FailingFeedback(FinishedPass.asyncRules,
                                           FailingAsyncRules(FinishedPass)))
        /\ _valid => feedback = Some(<<>>)

\* of two async rules the first resolved false and the second true
C11_Witness ==
    /\ SinglePassFinished
    /\ Len(FinishedPass.asyncRules) = 2
    /\ FailingAsyncRules(FinishedPass) = {1}
    /\ ~_valid
    /\ feedback = Some(<<"Already registered">>)

----------------------------------------------------------------------------
(* The gate of the feedback display.                                       *)

\* none of the six conditions that keep feedback from being displayed holds
NothingHidesFeedback ==
    /\ feedback # None
    /\ ~hideFeedback
    /\ formControl # None
    /\ formControl.val.touched
    /\ ~formControl.val.disabled
    /\ ~_valid

\* C12: shouldDisplayFeedback() is false when feedback is null, hideFeedback
\* is set, no control is bound, the control is untouched or disabled, or
\* _valid is true, and true otherwise; the continuation of valueUpdate()
\* takes the branch it says.  It is false with hideFeedback set although the
\* control is touched and invalid.
C12_FeedbackGate ==
    /\ shouldDisplayFeedback(Self) = NothingHidesFeedback
    /\ last.finished # 0 =>
          last.shown = IF NothingHidesFeedback THEN "display" ELSE "clear"
    /\ (hideFeedback /\ formControl # None /\ formControl.val.touched /\ ~_valid) =>
          /\ ~shouldDisplayFeedback(Self)
          /\ last.shown # "display"

\* a pass on a touched control ended invalid on a binding with hideFeedback
C12_Witness ==
    /\ last.finished # 0
    /\ hideFeedback
    /\ formControl.val.touched
    /\ ~_valid
    /\ feedback # None /\ feedback # Some(<<>>)
    /\ last.shown = "clear"

\* setErrors() ran in the last macrotask: in the continuation of
\* valueUpdate(), or in a callback subscribed to valueChanges
SetErrorsRan ==
    \/ last.finished # 0
    \/ last.op = "valueChanges" /\ formControl.val.observers > 0

\* C16: setErrors() gives the control the error flag only in states where
\* shouldDisplayFeedback() is true, while a pass is started by the timer
\* whether it is true or not.
C16_ErrorFlagOnlyWhenDisplayed ==
    /\ (SetErrorsRan /\ formControl.val.errors = Some([customErrors |-> TRUE])) =>
          shouldDisplayFeedback(Self)
    /\ last.op = "timer" => last.evaluated # None

\* C19: when the continuation of valueUpdate() displays feedback on an
\* initialised binding, the description element that displayFeedback()
\* inserts it after exists, and the continuation does not throw.
C19_DisplayNeverFails ==
    (last.finished # 0 /\ last.shown = "display" /\ _initialised) =>
        /\ _descriptionElement # None
        /\ ~last.threw

----------------------------------------------------------------------------
(* Overlapping passes.                                                     *)

LatestPass == passes[Len(passes)]

\* C4: once every pass has settled, _valid is that of the pass that started
\* last, and so is the error flag that the pass settling last gave the
\* control.
C4_LatestPassWins ==
    (passes # <<>> /\ AllPassed) =>
        /\ _valid = LatestPass.valid
        /\ last.finished # 0 =>
              formControl.val.errors =
                 IF LatestPass.valid THEN None ELSE Some([customErrors |-> TRUE])

AsyncFeedback ==
    {getAsyncRules[i].feedback : i \in 1..Len(getAsyncRules)} \ {NullString}

\* C5: while the pass that started last is one in which a sync rule failed,
\* the feedback list holds no feedback of an async rule.
C5_NoAsyncFeedbackAfterSyncFailure ==
    (passes # <<>> /\ LatestPass.syncFailed) =>
        \A i \in 1..Len(feedback.val) : feedback.val[i] \notin AsyncFeedback

----------------------------------------------------------------------------
(* Debounce.                                                               *)

\* C6: a binding never has two pending timers, the pending timer is the
\* one held in _typingTimer, and the timer whose callback runs is that one,
\* still pending: a timer that was cancelled never fires.
C6_OnePendingTimer ==
    /\ [](/\ Cardinality(PendingTimers) <= 1
          /\ \A id \in PendingTimers : id = _typingTimer)
    /\ [][last'.timer # 0 =>
            /\ last'.timer = _typingTimer
            /\ timers[last'.timer] = "pending"]_vars

\* a second value change cancelled the timer of the first and started its own
C6_Witness ==
    /\ quiet.burst >= 2
    /\ _typingTimer # 0
    /\ PendingTimers = {_typingTimer}

\* C7: after a burst of value changes, each before the timer of the one
\* before elapsed, one timer is left to fire or has fired, and the pass it
\* starts reads the value the control has after the last change.
C7_DebounceCoalesces ==
    /\ (_typingTimer # 0 /\ ~quiet.cancelled) =>
          Cardinality(PendingTimers) + quiet.fired = 1
    /\ last.timer # 0 =>
          /\ StartedPass
          /\ last.evaluated = Some(formControl.val.value)
          /\ quiet.fired = 1
          /\ PendingTimers = {}

\* the timer fired after a burst of two changes
C7_Witness ==
    /\ last.timer # 0
    /\ quiet.burst >= 2
    /\ StartedPass
    /\ timers[last.timer] = "fired"

\* C18: a value change starts no pass itself and leaves one timer pending
\* when the control has subscriptions, however many; the timer that fires
\* starts one pass and leaves no timer pending, so that one timer fires and
\* one pass starts per change that is followed by a quiet period.
C18_OnePassPerChange ==
    /\ [][last'.op = "valueChanges" =>
             /\ last'.started = 0
             /\ Len(passes') = Len(passes)
             /\ Cardinality(PendingTimers') =
                   IF formControl.val.observers > 0 THEN 1 ELSE 0]_vars
    /\ [][last'.op = "timer" =>
             /\ Len(passes') = Len(passes) + 1
             /\ last'.started = Len(passes')
             /\ PendingTimers' = {}]_vars
    /\ [](quiet.fired <= 1)

\* the timer fired after one value change of a control with two subscriptions
C18_Witness ==
    /\ last.op = "timer"
    /\ formControl.val.observers = MaxObservers
    /\ quiet.burst = 1
    /\ quiet.fired = 1
    /\ StartedPass
    /\ PendingTimers = {}

\* the fields of the directive and its control
fields == <<_valid, _initialised, _typingTimer, _descriptionElement,
            _feedbackElement, descriptions, feedback, formControl, timers,
            passes, destroyed>>

\* C20: blur and enter on an initialised binding cancel the pending timer
\* and start one pass on the value the control has; after a value change
\* followed by blur or enter no timer is pending and none has fired, so the
\* change is validated once; the timer that fires is never a cancelled one.
\* On a binding that is not initialised blur and enter change nothing.
C20_BlurValidatesNow ==
    /\ [][(last'.op \in {"onBlur", "onKeyUp"} /\ _initialised) =>
             /\ PendingTimers' = {}
             /\ \A id \in PendingTimers : timers'[id] = "cancelled"
             /\ Len(passes') = Len(passes) + 1
             /\ last'.started = Len(passes')
             /\ last'.evaluated = Some(formControl.val.value)
             /\ last'.timer = 0]_vars
    /\ [][(last'.op \in {"onBlur", "onKeyUp"} /\ ~_initialised) =>
             /\ UNCHANGED fields
             /\ last'.started = 0
             /\ last'.evaluated = None
             /\ ~last'.threw]_vars
    /\ [](quiet.cancelled => (PendingTimers = {} /\ quiet.fired = 0))
    /\ [][last'.op = "timer" => timers[last'.timer] # "cancelled"]_vars

\* enter was pressed while the timer of a value change was pending
C20_Witness ==
    /\ last.op = "onKeyUp"
    /\ quiet.changes > 0
    /\ quiet.cancelled
    /\ quiet.fired = 0
    /\ StartedPass
    /\ _typingTimer # 0
    /\ timers[_typingTimer] = "cancelled"
    /\ last.evaluated = Some(formControl.val.value)

\* the handlers that cancel the timer without scheduling another
Cancelling == {"onBlur", "onKeyUp", "ngOnDestroy"}

\* C14: cancelling the timer when none is pending (none was scheduled, or
\* the last one fired or was cancelled) raises no error and changes nothing;
\* cancelling twice is cancelling once; blur, enter and ngOnDestroy leave
\* the timers as they are when none was pending, and blur and enter go on
\* to validate.
C14_CancelIsIdempotent ==
    /\ [](PendingTimers = {} => cancelTypingTimer(Self) = Self)
    /\ [](cancelTypingTimer(cancelTypingTimer(Self)) = cancelTypingTimer(Self))
    /\ [][(PendingTimers = {} /\ last'.op \in Cancelling) =>
             /\ timers' = timers
             /\ _typingTimer' = _typingTimer
             /\ last'.timer = 0
             /\ (_initialised /\ last'.op # "ngOnDestroy") => last'.evaluated # None]_vars

\* ngOnDestroy ran after the last timer had fired
C14_Witness ==
    /\ last.op = "ngOnDestroy"
    /\ ~last.threw
    /\ _typingTimer # 0
    /\ timers[_typingTimer] = "fired"

----------------------------------------------------------------------------
(* Teardown.                                                               *)

\* C8: once ngOnDestroy has run, no timer is pending and no pass starts.
C8_NothingAfterDestroy ==
    destroyed => (PendingTimers = {} /\ ~StartedPass)

\* C9: once ngOnDestroy has run, the binding holds neither a description
\* element nor a feedback element.
C9_NoElementsAfterDestroy ==
    destroyed => (_descriptionElement = None /\ _feedbackElement = None)

----------------------------------------------------------------------------
(* Aggregation, explored for every pair of a rule set and a rule list of   *)
(* one variant with at most MaxRules rules each.                           *)

RuleArrays(universe) ==
    {None} \cup {Some(rules) : rules \in UNION {[1..n -> universe] : n \in 0..MaxRules}}

InitAgg ==
    /\ \/ /\ syncRuleSet \in RuleArrays(SyncRuleUniverse)
          /\ syncRules \in RuleArrays(SyncRuleUniverse)
          /\ asyncRuleSet = None
          /\ asyncRules = None
       \/ /\ syncRuleSet = None
          /\ syncRules = None
          /\ asyncRuleSet \in RuleArrays(AsyncRuleUniverse)
          /\ asyncRules \in RuleArrays(AsyncRuleUniverse)
    /\ hideFeedback = FALSE
    /\ hideDescriptions = FALSE
    /\ formControl = Some(NewControl(None, FALSE, FALSE))
    /\ InitDirective

NextAgg == NgOnChanges

SpecAgg == InitAgg /\ [][NextAgg]_vars

\* result is the rules of set, in order, followed by those of list, in
\* order, a null set or list counting as empty
IsSetThenList(result, set, list) ==
    LET fromSet == IF set = None THEN <<>> ELSE set.val
        fromList == IF list = None THEN <<>> ELSE list.val
    IN  /\ Len(result) = Len(fromSet) + Len(fromList)
        /\ \A i \in 1..Len(fromSet) : result[i] = fromSet[i]
        /\ \A i \in 1..Len(fromList) : result[Len(fromSet) + i] = fromList[i]

\* C10: getSyncRules() and getAsyncRules() return the rules of the set
\* followed by the rules of the list, and the handlers that call them leave
\* the set and the list as they were.
C10_SetThenList ==
    /\ [](/\ IsSetThenList(getSyncRules, syncRuleSet, syncRules)
          /\ IsSetThenList(getAsyncRules, asyncRuleSet, asyncRules))
    /\ [][UNCHANGED <<syncRuleSet, syncRules, asyncRuleSet, asyncRules>>]_vars

\* an initialised binding with a set and a list that start with different rules
C10_Witness ==
    /\ _initialised
    /\ passes # <<>>
    /\ syncRuleSet # None /\ syncRules # None
    /\ Len(syncRuleSet.val) = MaxRules /\ Len(syncRules.val) >= 1
    /\ syncRuleSet.val[1] # syncRules.val[1]
    /\ getSyncRules[1] = syncRuleSet.val[1]

----------------------------------------------------------------------------
(* Faults of sync rules.                                                   *)

\* a sync rule of the binding throws on the value the control has
SyncRuleThrows(control) ==
    \E i \in 1..Len(getSyncRules) : throws(getSyncRules[i], control)

\* C13: when validate() is called and a sync rule's isValid throws, the
\* exception leaves validate() and the handler that called it, no async rule
\* is invoked, no promise is returned, and _valid and the control's error
\* flag are what they were before the call.
C13_SyncFaultPropagates ==
    [][(last'.evaluated # None /\ SyncRuleThrows(formControl'.val)) =>
          /\ last'.threw
          /\ last'.invoked = 0
          /\ last'.started = 0
          /\ last'.finished = 0
          /\ Len(passes') = Len(passes)
          /\ _valid' = _valid
          /\ formControl'.val.errors = formControl.val.errors]_vars

\* the timer's pass threw on a number after a pass had found the control valid
C13_Witness ==
    /\ last.op = "timer"
    /\ last.threw
    /\ last.evaluated = Some(NumberValue)
    /\ SyncRuleThrows(formControl.val)
    /\ _valid
    /\ formControl.val.errors = None
    /\ passes # <<>>

----------------------------------------------------------------------------
(* Descriptions.                                                           *)

HasDescription(rule) == rule.description # NullString

\* the descriptions of the rules that have one, in the order of rules
Described(rules) ==
    LET kept == SelectSeq(rules, HasDescription)
    IN  [i \in 1..Len(kept) |-> kept[i].description]

\* C17: descriptions are built and rendered by the first ngOnChanges with a
\* bound control and by nothing else: they exist exactly on an initialised
\* binding, are the descriptions of the sync rules followed by those of the
\* async rules, and once the binding is initialised they do not change, the
\* description element is not created again and ngOnChanges starts no pass.
\* With no control bound nothing is built and no pass starts.
C17_DescriptionsBuiltOnce ==
    /\ [](/\ (descriptions # None) = _initialised
          /\ descriptions # None =>
                descriptions = Some(Described(getSyncRules) \o Described(getAsyncRules))
          /\ formControl = None =>
                /\ descriptions = None
                /\ _descriptionElement = None
                /\ passes = <<>>
                /\ last.evaluated = None)
    /\ [][(~_initialised /\ formControl # None /\ last'.op = "ngOnChanges") =>
             (_initialised' /\ descriptions' # None)]_vars
    /\ [][_initialised =>
             /\ descriptions' = descriptions
             /\ _descriptionElement' \in {_descriptionElement, None}
             /\ last'.op = "ngOnChanges" => last'.evaluated = None]_vars

\* the second ngOnChanges on a binding with sync and async rules, one of
\* them without description
C17_Witness ==
    /\ last.op = "ngOnChanges"
    /\ _initialised
    /\ last.evaluated = None
    /\ formControl # None
    /\ formControl.val.observers = 2
    /\ descriptions = Some(<<"This field is required", "Must be set",
                              "Must not be registered yet">>)
    /\ Len(getSyncRules) = 3

====
